---- MODULE Spec2Model ----
(***************************************************************************)
(* scripts/replace_console.py: the console-to-logger codemod.              *)
(*                                                                         *)
(* File text is a sequence of lexemes.  Every lexeme the script's regular  *)
(* expressions, substring tests and grep pattern mention is one token      *)
(* ("console.log(", "'", ")", ";", "require(", "../", ...), "m" is any     *)
(* other character run (a message, an identifier, a further argument) and  *)
(* "\n" is the line break.  The ",\s*error" of rules 1 and 2 is the token  *)
(* ",error" or ", error"; its rewriting is one token as well, so a         *)
(* substitution keeps the number of tokens and re.subn works in place.     *)
(***************************************************************************)
EXTENDS Integers, Sequences, FiniteSets, TLC

VARIABLES
    \* ---- main(): the run over a source tree
    fs,            \* the files under src: path index -> text
    fs0,           \* the tree as it was when the run started
    order,         \* the order in which find lists the files
    pc,            \* main's position
    files,         \* main: files
    idx,           \* main: i (1-based position in files)
    content,       \* main: content
    before_count, after_count, total_replacements, files_with_logger_added,
    logger_added, replacements,
    removed,       \* console calls actually rewritten so far, all files
    writes,        \* number of f.write calls per file
    qfailed,       \* some count query of this run has failed
    qok,           \* the last count query succeeded
    findfailed,    \* the find query has failed
    remaining_files, total_remaining,
    \* ---- the per-file functions applied to one text
    p_path, p_in, p_prev, p_text, p_pc, p_pass, p_added, p_repl

mainVars == <<fs, fs0, order, pc, files, idx, content, before_count, after_count,
              total_replacements, files_with_logger_added, logger_added,
              replacements, removed, writes, qfailed, qok, findfailed,
              remaining_files, total_remaining>>
fnVars == <<p_path, p_in, p_prev, p_text, p_pc, p_pass, p_added, p_repl>>
vars == <<mainVars, fnVars>>

----------------------------------------------------------------------------
\* Lexemes

NL == "\n"
SQ == "'"
DQ == "\""
ConsoleLog == "console.log("
ConsoleError == "console.error("
ConsoleWarn == "console.warn("
LoggerInfo == "logger.info("
LoggerError == "logger.error("
LoggerWarn == "logger.warn("
ErrorArgs == {",error", ", error"}
ErrorObject == ", { error: error.message, stack: error.stack }"
ConsoleTokens == {ConsoleLog, ConsoleError, ConsoleWarn}

----------------------------------------------------------------------------
\* Sequence helpers

Min(S) == CHOOSE x \in S : \A y \in S : x <= y
Max(S) == CHOOSE x \in S : \A y \in S : x >= y

\* The element of a one-element set
Only(S) == CHOOSE x \in S : TRUE

\* Python: sub in s
Contains(s, sub) ==
    \E i \in 0..(Len(s) - Len(sub)) : \A j \in 1..Len(sub) : s[i + j] = sub[j]

\* str.count of a one-token needle
Count(s, tok) == Cardinality({i \in 1..Len(s) : s[i] = tok})

\* The lines of a text, as (first, last) index pairs; an empty line has last = first - 1
LineStarts(s) == {1} \cup {i + 1 : i \in {j \in 1..Len(s) : s[j] = NL}}
LineEnd(s, a) == Min({b \in (a - 1)..Len(s) : b = Len(s) \/ s[b + 1] = NL})

----------------------------------------------------------------------------
\* count_console_statements: grep -c counts the LINES that match

LineHasConsole(s, a) == \E i \in a..LineEnd(s, a) : s[i] \in ConsoleTokens

CountLines(s) == Cardinality({a \in LineStarts(s) : LineHasConsole(s, a)})

\* Faulty variant: the failure of the grep subprocess is not caught
count_console_statements_raises(text, ok) ==
    [raised |-> ~ok, value |-> IF ok THEN CountLines(text) ELSE 0]

\* ok: the grep subprocess ran and exited 0 or 1; otherwise the bare except
\* (or the non-zero return code) gives 0
count_console_statements(text, ok) ==
    [raised |-> FALSE, value |-> IF ok THEN CountLines(text) ELSE 0]

----------------------------------------------------------------------------
\* add_logger_import

Ups(d) == [i \in 1..d |-> "../"]

\* Faulty variant: the depth is the separator count itself
LoggerPathFullDepth(filepath) == Ups(Count(filepath, "/")) \o <<"utils/logger">>

\* "../" * depth + "utils/logger", depth = filepath.count("/") - 1
LoggerPath(filepath) == Ups(Count(filepath, "/") - 1) \o <<"utils/logger">>

ImportLine(filepath) ==
    <<NL, "const ", "logger", " = ", "require(", SQ>> \o LoggerPath(filepath)
        \o <<SQ, ")", ";">>

HasLoggerReference(text) ==
    \/ Contains(text, <<"require(", SQ, "../", "../", "utils/logger", SQ, ")">>)
    \/ Contains(text, <<"require(", DQ, "../", "../", "utils/logger", DQ, ")">>)

\* ^const .+ = require\(.+\);$ on the line that starts at a
RequireLine(s, a) ==
    LET b == LineEnd(s, a) IN
    /\ b >= a
    /\ s[a] = "const "
    /\ s[b] = ";"
    /\ s[b - 1] = ")"
    /\ \E i \in (a + 2)..(b - 4) : s[i] = " = " /\ s[i + 1] = "require("

RequireEnds(s) == {LineEnd(s, a) : a \in {x \in LineStarts(s) : RequireLine(s, x)}}

\* Faulty variant: the import goes after the first require line
InsertPosFirst(s) == Min(RequireEnds(s))

InsertPos(s) == Max(RequireEnds(s))

add_logger_import(text, filepath) ==
    IF HasLoggerReference(text) THEN <<text, FALSE>>
    ELSE IF RequireEnds(text) # {}
         THEN LET pos == InsertPos(text) IN
              <<SubSeq(text, 1, pos) \o ImportLine(filepath)
                    \o SubSeq(text, pos + 1, Len(text)), TRUE>>
         ELSE <<text, FALSE>>

----------------------------------------------------------------------------
\* replace_console_statements

Rules == <<
    [method |-> ConsoleError, quote |-> SQ, arg |-> TRUE,  logger |-> LoggerError],
    [method |-> ConsoleError, quote |-> DQ, arg |-> TRUE,  logger |-> LoggerError],
    [method |-> ConsoleError, quote |-> SQ, arg |-> FALSE, logger |-> LoggerError],
    [method |-> ConsoleError, quote |-> DQ, arg |-> FALSE, logger |-> LoggerError],
    [method |-> ConsoleLog,   quote |-> SQ, arg |-> FALSE, logger |-> LoggerInfo],
    [method |-> ConsoleLog,   quote |-> DQ, arg |-> FALSE, logger |-> LoggerInfo],
    [method |-> ConsoleWarn,  quote |-> SQ, arg |-> FALSE, logger |-> LoggerWarn],
    [method |-> ConsoleWarn,  quote |-> DQ, arg |-> FALSE, logger |-> LoggerWarn] >>

\* The closing quote of method(q[^q]+q starting at p: the first q after the
\* opening one, with at least one token between; 0 when there is none
CloseQuote(r, s, p) ==
    IF p + 1 > Len(s) \/ s[p] # r.method \/ s[p + 1] # r.quote THEN 0
    ELSE LET qs == {e \in (p + 2)..Len(s) : s[e] = r.quote} IN
         IF qs = {} THEN 0
         ELSE IF Min(qs) = p + 2 THEN 0 ELSE Min(qs)

\* Faulty variant: the patterns do not ask for the semicolon
MatchEndNoSemicolon(r, s, p) ==
    LET e == CloseQuote(r, s, p) IN
    IF e = 0 THEN 0
    ELSE IF r.arg
         THEN IF e + 2 <= Len(s) /\ s[e + 1] \in ErrorArgs /\ s[e + 2] = ")"
              THEN e + 2 ELSE 0
         ELSE IF e + 1 <= Len(s) /\ s[e + 1] = ")" THEN e + 1 ELSE 0

\* Index of the last token of rule r's match at p, 0 when r does not match at p
MatchEnd(r, s, p) ==
    LET e == CloseQuote(r, s, p) IN
    IF e = 0 THEN 0
    ELSE IF r.arg
         THEN IF e + 3 <= Len(s) /\ s[e + 1] \in ErrorArgs
                   /\ s[e + 2] = ")" /\ s[e + 3] = ";"
              THEN e + 3 ELSE 0
         ELSE IF e + 2 <= Len(s) /\ s[e + 1] = ")" /\ s[e + 2] = ";"
              THEN e + 2 ELSE 0

\* re.subn finds its matches in the text as it is given: the leftmost
\* match, then the leftmost one that starts after its end, and so on.
\* The start positions of the matches found from p on
RECURSIVE Matches(_, _, _)
Matches(r, s, p) ==
    IF p > Len(s) THEN {}
    ELSE IF s[p] # r.method THEN Matches(r, s, p + 1)
    ELSE Only({ IF e = 0 THEN Matches(r, s, p + 1)
                ELSE {p} \cup Matches(r, s, e + 1) : e \in {MatchEnd(r, s, p)} })

\* Faulty variant: the template of rules 1 and 2 keeps the argument as it was
SubstituteMethodOnly(r, s, ms) ==
    [i \in 1..Len(s) |-> IF i \in ms THEN r.logger ELSE s[i]]

\* The replacement template applied to the matches that start at ms
Substitute(r, s, ms) ==
    Only({ [i \in 1..Len(s) |->
               IF i \in ms THEN r.logger
               ELSE IF i \in args THEN ErrorObject
               ELSE s[i]] :
           args \in {IF r.arg THEN {CloseQuote(r, s, p) + 1 : p \in ms} ELSE {}} })

\* (new text, count)
subn(r, s) ==
    Only({ <<Substitute(r, s, ms), Cardinality(ms)>> : ms \in {Matches(r, s, 1)} })

\* One rule after the other, each on the text the one before it left;
\* acc is (content, replacements)
RECURSIVE ApplyRules(_, _)
ApplyRules(k, acc) ==
    IF k > Len(Rules) THEN acc
    ELSE Only({ ApplyRules(k + 1, <<res[1], acc[2] + res[2]>>) :
                    res \in {subn(Rules[k], acc[1])} })

replace_console_statements(text) == Only({ApplyRules(1, <<t, 0>>) : t \in {text}})

----------------------------------------------------------------------------
\* Inputs: file paths as find prints them, and texts of a few lines each

PathA == <<"src", "/", "a.js">>
PathB == <<"src", "/", "deep", "/", "b.js">>
PathC == <<"src", "/", "x", "/", "y", "/", "c.js">>
Paths == {PathA, PathB, PathC}

MaxLines == 2
MaxPasses == 2

RequireStmt == <<"const ", "m", " = ", "require(", SQ, "m", SQ, ")", ";">>
LoggerStmt(q, d) ==
    <<"const ", "logger", " = ", "require(", q>> \o Ups(d) \o <<"utils/logger", q, ")", ";">>
Call(method, q, tail) == <<method, q, "m", q>> \o tail \o <<")", ";">>

FnLines ==
    { <<>>,
      RequireStmt,
      LoggerStmt(SQ, 0), LoggerStmt(SQ, 2), LoggerStmt(DQ, 2),
      Call(ConsoleLog, SQ, <<>>),
      Call(ConsoleError, SQ, <<", error">>), Call(ConsoleError, DQ, <<",error">>),
      Call(ConsoleWarn, SQ, <<>>),
      \* two convertible calls on one line
      Call(ConsoleError, SQ, <<>>) \o Call(ConsoleError, DQ, <<>>),
      \* two calls on one line, the second with a computed argument
      Call(ConsoleWarn, DQ, <<>>) \o <<ConsoleLog, "m", ")", ";">>,
      \* a second argument that is not the identifier error
      Call(ConsoleWarn, SQ, <<"m">>),
      \* no semicolon
      <<ConsoleLog, DQ, "m", DQ, ")">>,
      \* a message that runs over the line break, and its end
      <<ConsoleLog, SQ, "m">>,
      <<"m", SQ, ")", ";">>,
      \* console.error('m console.error(', error); m(', error);');
      <<ConsoleError, SQ, "m", ConsoleError, SQ, ", error", ")", ";",
        "m", SQ, ", error", ")", ";", SQ, ")", ";">>,
      \* console.error('m console.log("m"); m', error);
      <<ConsoleError, SQ, "m">> \o Call(ConsoleLog, DQ, <<>>) \o <<"m", SQ, ", error", ")", ";">>,
      \* const m = require('m');console.log('m');
      RequireStmt \o Call(ConsoleLog, SQ, <<>>) }

RECURSIVE TextsOf(_, _)
TextsOf(L, n) ==
    IF n <= 1 THEN L
    ELSE LET T == TextsOf(L, n - 1) IN T \cup {t \o <<NL>> \o l : t \in T, l \in L}

FnTexts == TextsOf(FnLines, MaxLines)

----------------------------------------------------------------------------
\* The per-file functions applied to one text, pass after pass

MainIdle ==
    /\ fs = <<>> /\ fs0 = <<>> /\ order = <<>> /\ pc = "off" /\ files = <<>>
    /\ idx = 0 /\ content = <<>> /\ before_count = 0 /\ after_count = 0
    /\ total_replacements = 0 /\ files_with_logger_added = 0
    /\ logger_added = FALSE /\ replacements = 0 /\ removed = 0
    /\ writes = <<>> /\ qfailed = FALSE /\ qok = TRUE /\ findfailed = FALSE
    /\ remaining_files = <<>> /\ total_remaining = 0

InitFn ==
    /\ MainIdle
    /\ p_path \in Paths
    /\ p_in \in FnTexts
    /\ p_prev = p_in /\ p_text = p_in
    /\ p_pc = "input" /\ p_pass = 1 /\ p_added = FALSE /\ p_repl = 0

FnAddLoggerImport ==
    /\ p_pc = "input"
    /\ \E res \in {add_logger_import(p_text, p_path)} :
       /\ p_text' = res[1]
       /\ p_added' = res[2]
    /\ p_prev' = p_text
    /\ p_pc' = "imported"
    /\ UNCHANGED <<p_path, p_in, p_pass, p_repl, mainVars>>

FnReplaceConsole ==
    /\ p_pc = "imported"
    /\ \E res \in {replace_console_statements(p_text)} :
       /\ p_text' = res[1]
       /\ p_repl' = res[2]
    /\ p_prev' = p_text
    /\ p_pc' = "replaced"
    /\ UNCHANGED <<p_path, p_in, p_pass, p_added, mainVars>>

\* The output of one pass is the input of the next
FnAgain ==
    /\ p_pc = "replaced"
    /\ p_pass < MaxPasses
    /\ p_in' = p_text
    /\ p_prev' = p_text
    /\ p_pass' = p_pass + 1
    /\ p_pc' = "input"
    /\ p_added' = FALSE
    /\ p_repl' = 0
    /\ UNCHANGED <<p_path, p_text, mainVars>>

NextFn == FnAddLoggerImport \/ FnReplaceConsole \/ FnAgain

SpecFn == InitFn /\ [][NextFn]_vars

----------------------------------------------------------------------------
\* main(): one run over the tree src/a.js, src/deep/b.js

RunPaths == <<PathA, PathB>>
FileIds == 1..Len(RunPaths)

MaxTreeLines == 2

TwoCalls == Call(ConsoleLog, SQ, <<>>) \o <<ConsoleLog, "m", ")", ";">>
RunLines == {RequireStmt, Call(ConsoleWarn, SQ, <<>>), Call(ConsoleLog, SQ, <<>>), TwoCalls}

NumLines(t) == IF t = <<>> THEN 0 ELSE Count(t, NL) + 1

RunTexts == {<<>>} \cup TextsOf(RunLines, MaxTreeLines)

\* The two-file tree of the end-to-end scenario: src/a.js holds one require
\* line and console.warn('m');, src/deep/b.js holds console.log('m');
Scenario ==
    [f \in FileIds |->
        IF f = 1 THEN RequireStmt \o <<NL>> \o Call(ConsoleWarn, SQ, <<>>)
        ELSE Call(ConsoleLog, SQ, <<>>)]

\* The scenario, and every tree of at most MaxTreeLines lines in all
Trees ==
    {Scenario} \cup
    {tr \in [FileIds -> RunTexts] : NumLines(tr[1]) + NumLines(tr[2]) <= MaxTreeLines}

Orders == {<<1, 2>>, <<2, 1>>}

\* find src -name "*.js" -type f, then the files whose count is positive.
\* bad: the files whose count query fails
find_files_with_console(tree, listed, bad) ==
    [raised |-> \E f \in FileIds : count_console_statements(tree[f], f \notin bad).raised,
     files |-> SelectSeq(listed,
                  LAMBDA f : count_console_statements(tree[f], f \notin bad).value > 0)]

\* Faulty variant: the loop variable is not used, the first file is taken each time
FirstFile == files[1]

\* for i, filepath in enumerate(files, 1)
CurrentFile == files[idx]

\* Faulty variant: the difference the wrong way round
DeltaSwapped(before, after) == after - before

\* total_replacements += before_count - after_count
Delta(before, after) == before - after

\* The console calls of a text, whatever their shape
Occurrences(t) == Cardinality({i \in 1..Len(t) : t[i] \in ConsoleTokens})

RECURSIVE SumCounts(_, _, _)
SumCounts(tree, fl, bad) ==
    IF fl = <<>> THEN 0
    ELSE count_console_statements(tree[Head(fl)], Head(fl) \notin bad).value
            + SumCounts(tree, Tail(fl), bad)

Init ==
    /\ p_path = <<>> /\ p_in = <<>> /\ p_prev = <<>> /\ p_text = <<>>
    /\ p_pc = "off" /\ p_pass = 0 /\ p_added = FALSE /\ p_repl = 0
    /\ fs0 \in Trees
    /\ fs = fs0
    /\ order \in Orders
    /\ pc = "start"
    /\ files = <<>> /\ idx = 0 /\ content = <<>>
    /\ before_count = 0 /\ after_count = 0
    /\ total_replacements = 0 /\ files_with_logger_added = 0
    /\ logger_added = FALSE /\ replacements = 0
    /\ removed = 0
    /\ writes = [f \in FileIds |-> 0]
    /\ qfailed = FALSE /\ qok = TRUE /\ findfailed = FALSE
    /\ remaining_files = <<>> /\ total_remaining = 0

\* line 136: files = find_files_with_console(), find exits 0
FindFiles ==
    /\ pc = "start"
    /\ \E bad \in SUBSET FileIds :
       \E res \in {find_files_with_console(fs, order, bad)} :
          /\ files' = res.files
          /\ qfailed' = (bad # {})
          /\ qok' = (bad = {})
          /\ pc' = IF res.raised THEN "aborted"
                   ELSE IF res.files = <<>> THEN "done" ELSE "read"
          /\ idx' = IF res.raised \/ res.files = <<>> THEN 0 ELSE 1
    /\ UNCHANGED <<fs, fs0, order, content, before_count, after_count,
                   total_replacements, files_with_logger_added, logger_added,
                   replacements, removed, writes, findfailed,
                   remaining_files, total_remaining, fnVars>>

\* lines 27-32: find fails and check=True raises CalledProcessError (or the
\* program is missing), which nothing catches
FindRaises ==
    /\ pc \in {"start", "summary"}
    /\ findfailed' = TRUE
    /\ pc' = "aborted"
    /\ UNCHANGED <<fs, fs0, order, files, idx, content, before_count, after_count,
                   total_replacements, files_with_logger_added, logger_added,
                   replacements, removed, writes, qfailed, qok,
                   remaining_files, total_remaining, fnVars>>

\* lines 151-154: read the file, count its console lines
ReadFile ==
    /\ pc = "read"
    /\ content' = fs[CurrentFile]
    /\ \E ok \in BOOLEAN :
       \E res \in {count_console_statements(fs[CurrentFile], ok)} :
          /\ before_count' = res.value
          /\ qok' = ok
          /\ qfailed' = (qfailed \/ ~ok)
          /\ pc' = IF res.raised THEN "aborted" ELSE "import"
    /\ UNCHANGED <<fs, fs0, order, files, idx, after_count,
                   total_replacements, files_with_logger_added, logger_added,
                   replacements, removed, writes, findfailed,
                   remaining_files, total_remaining, fnVars>>

\* lines 157-160
AddLoggerImport ==
    /\ pc = "import"
    /\ \E res \in {add_logger_import(content, RunPaths[CurrentFile])} :
          /\ content' = res[1]
          /\ logger_added' = res[2]
          /\ files_with_logger_added' =
                IF res[2] THEN files_with_logger_added + 1 ELSE files_with_logger_added
    /\ pc' = "replace"
    /\ UNCHANGED <<fs, fs0, order, files, idx, before_count, after_count,
                   total_replacements, replacements, removed, writes,
                   qfailed, qok, findfailed, remaining_files, total_remaining, fnVars>>

\* line 163
ReplaceConsole ==
    /\ pc = "replace"
    /\ \E res \in {replace_console_statements(content)} :
          /\ content' = res[1]
          /\ replacements' = res[2]
    /\ pc' = "open"
    /\ UNCHANGED <<fs, fs0, order, files, idx, before_count, after_count,
                   total_replacements, files_with_logger_added, logger_added,
                   removed, writes, qfailed, qok, findfailed,
                   remaining_files, total_remaining, fnVars>>

\* line 166: open(filepath, "w") truncates the file
OpenForWrite ==
    /\ pc = "open"
    /\ fs' = [fs EXCEPT ![CurrentFile] = <<>>]
    /\ pc' = "write"
    /\ UNCHANGED <<fs0, order, files, idx, content, before_count, after_count,
                   total_replacements, files_with_logger_added, logger_added,
                   replacements, removed, writes, qfailed, qok,
                   findfailed, remaining_files, total_remaining, fnVars>>

\* line 167: f.write(content)
WriteFile ==
    /\ pc = "write"
    /\ fs' = [fs EXCEPT ![CurrentFile] = content]
    /\ writes' = [writes EXCEPT ![CurrentFile] = @ + 1]
    /\ pc' = "count"
    /\ UNCHANGED <<fs0, order, files, idx, content, before_count, after_count,
                   total_replacements, files_with_logger_added, logger_added,
                   replacements, removed, qfailed, qok,
                   findfailed, remaining_files, total_remaining, fnVars>>

\* lines 169-178, and the loop moves on
CountAfter ==
    /\ pc = "count"
    /\ \E ok \in BOOLEAN :
       \E res \in {count_console_statements(fs[CurrentFile], ok)} :
          /\ after_count' = res.value
          /\ total_replacements' = total_replacements + Delta(before_count, res.value)
          /\ qok' = ok
          /\ qfailed' = (qfailed \/ ~ok)
          /\ pc' = IF res.raised THEN "aborted"
                   ELSE IF idx = Len(files) THEN "summary" ELSE "read"
    /\ removed' = removed + Occurrences(fs0[CurrentFile]) - Occurrences(fs[CurrentFile])
    /\ idx' = idx + 1
    /\ UNCHANGED <<fs, fs0, order, files, content, before_count,
                   files_with_logger_added, logger_added, replacements, writes,
                   findfailed, remaining_files, total_remaining, fnVars>>

\* lines 180-193: the totals are printed, the tree is scanned again and what
\* is left is counted
FinalScan ==
    /\ pc = "summary"
    /\ \E bad \in SUBSET FileIds :
       \E res \in {find_files_with_console(fs, order, bad)} :
       \E bad2 \in SUBSET {res.files[k] : k \in 1..Len(res.files)} :
          /\ remaining_files' = res.files
          /\ total_remaining' = SumCounts(fs, res.files, bad2)
          /\ qfailed' = (qfailed \/ bad # {} \/ bad2 # {})
          /\ qok' = (bad = {} /\ bad2 = {})
          /\ pc' = IF res.raised THEN "aborted" ELSE "done"
    /\ UNCHANGED <<fs, fs0, order, files, idx, content, before_count, after_count,
                   total_replacements, files_with_logger_added, logger_added,
                   replacements, removed, writes, findfailed, fnVars>>

\* The process is killed between two steps
Crash ==
    /\ pc \in {"read", "import", "replace", "open", "write", "count", "summary"}
    /\ pc' = "crashed"
    /\ UNCHANGED <<fs, fs0, order, files, idx, content, before_count, after_count,
                   total_replacements, files_with_logger_added, logger_added,
                   replacements, removed, writes, qfailed, qok,
                   findfailed, remaining_files, total_remaining, fnVars>>

Next ==
    \/ FindFiles \/ FindRaises \/ ReadFile \/ AddLoggerImport \/ ReplaceConsole
    \/ OpenForWrite \/ WriteFile \/ CountAfter \/ FinalScan \/ Crash

Spec == Init /\ [][Next]_vars

----------------------------------------------------------------------------
\* Properties of the per-file functions (SpecFn)

\* The lines of a text
RECURSIVE SplitLines(_)
SplitLines(t) ==
    IF \A i \in 1..Len(t) : t[i] # NL THEN <<t>>
    ELSE Only({ <<SubSeq(t, 1, k - 1)>> \o SplitLines(SubSeq(t, k + 1, Len(t))) :
                    k \in {Min({i \in 1..Len(t) : t[i] = NL})} })

\* const <name> = require(<expr>); and nothing else on the line
RequireShape(line) ==
    /\ Len(line) >= 6
    /\ line[1] = "const "
    /\ line[Len(line) - 1] = ")" /\ line[Len(line)] = ";"
    /\ \E i \in 3..(Len(line) - 4) : line[i] = " = " /\ line[i + 1] = "require("

\* The text names the logger module, at whatever depth and in whatever quotes
MentionsLogger(t) == \E i \in 1..Len(t) : t[i] = "utils/logger"

\* require('<path>') or require("<path>") of the logger, <path> as this file needs it
HasReferenceFor(t, filepath) ==
    \E q \in {SQ, DQ} : Contains(t, <<"require(", q>> \o LoggerPath(filepath) \o <<q, ")">>)

NewImport(filepath) ==
    <<"const ", "logger", " = ", "require(", SQ>> \o LoggerPath(filepath) \o <<SQ, ")", ";">>

\* One of the eight call shapes starts at p and ends at e: method(, a quote,
\* a message without that quote, the quote, for error optionally the
\* identifier error, then );
ShapeFromTo(t, p, e) ==
    /\ p + 4 <= e /\ e <= Len(t)
    /\ t[p] \in ConsoleTokens
    /\ t[p + 1] \in {SQ, DQ}
    /\ t[e - 1] = ")" /\ t[e] = ";"
    /\ \E c \in (p + 3)..(e - 2) :
          /\ t[c] = t[p + 1]
          /\ \A i \in (p + 2)..(c - 1) : t[i] # t[p + 1]
          /\ \/ c = e - 2
             \/ c = e - 3 /\ t[p] = ConsoleError /\ t[e - 2] \in ErrorArgs

ShapeAt(t, p) == \E e \in {x \in (p + 4)..Len(t) : t[x] = ";"} : ShapeFromTo(t, p, e)

\* The shape at p lies on one line
SingleLineShapeAt(t, p) ==
    \E e \in {x \in (p + 4)..Len(t) : t[x] = ";"} :
        ShapeFromTo(t, p, e) /\ \A i \in p..e : t[i] # NL

\* console.error('X', error); from p to e, X the message
ErrorCallFromTo(t, p, e) ==
    ShapeFromTo(t, p, e) /\ t[p] = ConsoleError /\ t[p + 1] = SQ /\ t[e - 2] \in ErrorArgs

ErrorCalls(t) ==
    {pe \in {p \in 1..Len(t) : t[p] = ConsoleError} \X {e \in 1..Len(t) : t[e] = ";"} :
        ErrorCallFromTo(t, pe[1], pe[2])}

Message(t, pe) == SubSeq(t, pe[1] + 2, pe[2] - 4)

\* logger.error('X', { error: error.message, stack: error.stack });
LoggedError(x) == <<LoggerError, SQ>> \o x \o <<SQ, ErrorObject, ")", ";">>

\* The message holds no console call text and no );
PlainMessage(x) ==
    /\ \A i \in 1..Len(x) : x[i] \notin ConsoleTokens
    /\ \A i \in 1..(Len(x) - 1) : ~(x[i] = ")" /\ x[i + 1] = ";")

\* One console.error('..', error); begins inside another
Overlapping(t) ==
    \E a \in ErrorCalls(t), b \in ErrorCalls(t) : a[1] < b[1] /\ b[1] <= a[2]

\* C1: applying add_logger_import then replace_console_statements to the
\* output of a first application changes nothing: no import line is
\* inserted and no substitution is made.
C1_Idempotent ==
    (p_pass >= 2 /\ p_pc = "replaced") => (p_text = p_in /\ ~p_added /\ p_repl = 0)

\* C2: a text that already requires the logger, in either quoting and at
\* the depth this file needs, comes back from add_logger_import unchanged
\* with the signal "not added".
C2_NoSecondReference ==
    (p_pc = "imported" /\ HasReferenceFor(p_prev, p_path))
        => (p_text = p_prev /\ ~p_added)

\* C4 as stated: whenever the text holds console.error('X', error);, the
\* text after replace_console_statements holds
\* logger.error('X', { error: error.message, stack: error.stack }); and no
\* match of rule 1.
C4_Original ==
    (p_pc = "replaced" /\ ErrorCalls(p_prev) # {}) =>
        /\ \A pe \in ErrorCalls(p_prev) : Contains(p_text, LoggedError(Message(p_prev, pe)))
        /\ ErrorCalls(p_text) = {}

\* C4 amended: when the message X holds no console call text and no );,
\* the text after replace_console_statements holds the logger.error call
\* with X; and unless one console.error('..', error); begins inside
\* another, no match of rule 1 is left.
C4_ErrorWithIdentifier ==
    (p_pc = "replaced" /\ ErrorCalls(p_prev) # {}) =>
        /\ \A pe \in ErrorCalls(p_prev) :
              PlainMessage(Message(p_prev, pe))
                  => Contains(p_text, LoggedError(Message(p_prev, pe)))
        /\ ~Overlapping(p_prev) => ErrorCalls(p_text) = {}

C4_Witness ==
    /\ p_pc = "replaced"
    /\ ~Overlapping(p_prev)
    /\ \E pe \in ErrorCalls(p_prev) :
          /\ PlainMessage(Message(p_prev, pe))
          /\ Contains(p_text, LoggedError(Message(p_prev, pe)))

----------------------------------------------------------------------------
\* Properties of a run (Spec)

ScenarioCounts ==
    /\ Len(files) = 2
    /\ files_with_logger_added = 1
    /\ total_replacements = 2
    /\ remaining_files = <<>> /\ total_remaining = 0
    /\ fs[2] = <<LoggerInfo, SQ, "m", SQ, ")", ";">>

RequiresLogger(t, path) ==
    Contains(t, <<NL, "const ", "logger", " = ", "require(", SQ>> \o path \o <<SQ, ")", ";", NL>>)

\* C3 as stated: the scenario run processes 2 files, adds 1 import, reports
\* 2 replacements and nothing remaining; b.js is logger.info('m'); without
\* an import and a.js requires '../utils/logger'.
C3_Original ==
    (pc = "done" /\ fs0 = Scenario /\ ~qfailed) =>
        /\ ScenarioCounts
        /\ RequiresLogger(fs[1], <<"../", "utils/logger">>)

\* C3 amended: as stated, except that the line inserted into src/a.js
\* requires 'utils/logger': one separator minus one is zero "../" segments.
C3_Scenario ==
    (pc = "done" /\ fs0 = Scenario /\ ~qfailed) =>
        /\ ScenarioCounts
        /\ fs[1] = RequireStmt
                     \o <<NL, "const ", "logger", " = ", "require(", SQ, "utils/logger", SQ, ")", ";", NL>>
                     \o <<LoggerWarn, SQ, "m", SQ, ")", ";">>

C3_Witness == pc = "done" /\ fs0 = Scenario /\ ~qfailed /\ files_with_logger_added = 1

\* C6 as stated: no failure of the find query or of a count query aborts
\* the run.
C6_Original == pc # "aborted"

\* C6 amended: a failed count query gives 0 and the run goes on to its
\* normal end; only a failure of the find query, which is not caught, aborts
\* the run.
C6_FailureHandling ==
    /\ pc = "aborted" <=> findfailed
    /\ (pc = "import" /\ ~qok) => before_count = 0
    /\ (pc \in {"read", "summary"} /\ idx >= 2 /\ ~qok) => after_count = 0

C6_Witness == pc = "done" /\ qfailed /\ Len(files) = 2 /\ idx = 3

\* C8: the total reported at the end is the number of console calls the
\* run removed from the processed files.
C8_TotalIsRemovals ==
    (pc \in {"summary", "done"} /\ ~qfailed) => total_replacements = removed

\* What the per-file steps make of the file's original text
Transformed(f) ==
    Only({ Only({ r[1] : r \in {replace_console_statements(a[1])} }) :
               a \in {add_logger_import(t, RunPaths[f]) : t \in {fs0[f]}} })

\* C9: the files are handled one after the other in the order found: every
\* file before the current one holds its transformed text and was written
\* once, every file after it (and every file not found) holds its original
\* text and was never written, and the current one is written at most once;
\* this holds wherever the run stops.
C9_OneFileAtATime ==
    /\ \A k \in 1..Len(files) :
          /\ k < idx => (writes[files[k]] = 1 /\ fs[files[k]] = Transformed(files[k]))
          /\ k > idx => (fs[files[k]] = fs0[files[k]] /\ writes[files[k]] = 0)
          /\ k = idx =>
                /\ writes[files[k]] <= 1
                /\ writes[files[k]] = 1 => fs[files[k]] = Transformed(files[k])
                /\ pc \in {"read", "import", "replace", "open"} => fs[files[k]] = fs0[files[k]]
    /\ \A f \in FileIds :
          (\A k \in 1..Len(files) : files[k] # f) => (fs[f] = fs0[f] /\ writes[f] = 0)
    /\ \A j \in 1..Len(files), k \in 1..Len(files) : files[j] = files[k] => j = k

C9_Witness ==
    /\ pc = "crashed" /\ idx = 2 /\ Len(files) = 2
    /\ writes[files[1]] = 1 /\ fs[files[1]] # fs0[files[1]]
    /\ content # fs[files[2]]

AsSet(fl) == {fl[k] : k \in 1..Len(fl)}

Monotone ==
    /\ (pc \in {"read", "summary", "done"} /\ idx >= 2) => after_count <= before_count
    /\ total_replacements >= 0
    /\ pc = "done" => AsSet(remaining_files) \subseteq AsSet(files)

====
